---------------------------- MODULE Spec2Model ----------------------------
(***************************************************************************)
(* Model of the supercaching DNS forwarder (src/src/main.rs).              *)
(*                                                                         *)
(* Each client request runs Handler::handle_request as its own task.  The  *)
(* tasks share the cache table `record` (a SQLite table keyed by           *)
(* (record_name, record_type)) and the wall clock.  A task is suspended    *)
(* only at an await: the upstream lookup, the cache statement, the send.   *)
(* The cache write of the success path runs as a detached task.            *)
(*                                                                         *)
(* Time is counted in clock ticks, TicksPerSecond of them per second, so   *)
(* that the whole-second truncations of the code (as_secs) are visible.    *)
(***************************************************************************)
EXTENDS Integers, Sequences, FiniteSets, TLC

(***************************************************************************)
(* Bounds of the model.                                                    *)
(***************************************************************************)
\* The clock runs from 0 to MaxClock ticks.
MaxClock == 4
\* Sub-second resolution of std::time::SystemTime, scaled down.
TicksPerSecond == 2
\* Ticks that may pass between two readings of the clock in one handler step.
MaxElapsed == 1
\* Longest record list given to sort_out_records on its own.
MaxRecords == 2
\* Width of a record's TTL (u32 in the code), scaled down: TLC's integers
\* are 32 bits wide themselves, so 2^32 cannot be written.
TtlBits == 3
\* Longest input of UpstreamSpec::from_str, in pieces (separators and the
\* runs of characters between them).
MaxPieces == 5

\* The handler invocations of a behaviour: two requests, which may overlap.
Reqs == {1, 2}
TtlModulus == 2 ^ TtlBits

\* Option::None, and "nothing yet" for the per-request state.
None == [none |-> TRUE]

(***************************************************************************)
(* Inputs: what clients ask and what the upstream resolver answers.        *)
(***************************************************************************)
RequestIds == {0, 7}
MessageTypes == {"Query", "Response"}
\* (query name, query type); the request holds the name lower-cased.
Queries == {<<"a.", "A">>, <<"b.", "A">>}

Rec(name, type, ttl, rdata) ==
    [name |-> name, record_type |-> type, dns_class |-> "IN", ttl |-> ttl, rdata |-> rdata]

\* The record batches the upstream may deliver for a query.
UpstreamAnswers(q) ==
    { << Rec(q[1], q[2], 2, "r1") >>,
      << Rec(q[1], q[2], 1, "r2"), Rec("zone.", "NS", 2, "ns."), Rec("ns.", "A", 1, "r3") >> }

\* The SOA record a NoRecordsFound error may carry.
UpstreamSoas ==
    { [name |-> "zone.", record_type |-> "SOA", dns_class |-> c, ttl |-> 2, rdata |-> "soa"]
        : c \in {"IN", "CH"} }
NegativeCodes == {"NXDomain", "NoError"}
\* Error kinds that are neither NoConnections nor NoRecordsFound.
OtherErrorKinds == {"Timeout", "Proto"}

VARIABLES
    clock,      \* std::time::SystemTime::now(), in ticks
    cache,      \* the table `record`: key -> row, or None
    req,        \* req[r]: the request a handler invocation was given
    pc,         \* pc[r]: where the handler invocation stands
    upstream,   \* upstream[r]: what self.resolver.lookup returned
    local,      \* local[r]: the handler's locals that live across an await
    task,       \* task[r]: the detached cache write the invocation spawned
    sent,       \* sent[r]: the responses passed to response_handle.send_response
    resolved,   \* history: the keys for which a fresh answer has been sent
    late,       \* history: late[r] iff r arrived when its key was in resolved
    call,       \* the arguments of a function applied on its own
    result      \* what that function returned, None before the call

handler_vars == <<clock, cache, req, pc, upstream, local, task, sent, resolved, late>>
fn_vars == <<call, result>>
vars == <<handler_vars, fn_vars>>

(***************************************************************************)
(* std::time                                                               *)
(***************************************************************************)
\* Duration::from_secs
from_secs(s) == s * TicksPerSecond
\* Duration::as_secs
as_secs(d) == d \div TicksPerSecond
\* Faulty variant: the distance between the two instants, whichever is later.
duration_since_absolute(later, earlier) ==
    IF later >= earlier THEN later - earlier ELSE earlier - later

\* SystemTime::duration_since(..).unwrap_or_default()
duration_since_or_default(later, earlier) ==
    IF later >= earlier THEN later - earlier ELSE 0
\* `as u32`
as_u32(n) == n % TtlModulus
\* now().duration_since(UNIX_EPOCH).unwrap().as_secs() as i64
now_unix(t) == as_secs(t)


(***************************************************************************)
(* serde_json over Vec<Record>: content_json.  A record is written as the  *)
(* list of its fields and read back field by field.                        *)
(***************************************************************************)
record_to_json(record) ==
    << record.name, record.record_type, record.dns_class, record.ttl, record.rdata >>

\* Faulty variant: the TTL is not read back, it takes the type's default.
record_from_json_default_ttl(j) ==
    [name |-> j[1], record_type |-> j[2], dns_class |-> j[3], ttl |-> 0, rdata |-> j[5]]

record_from_json(j) ==
    [name |-> j[1], record_type |-> j[2], dns_class |-> j[3], ttl |-> j[4], rdata |-> j[5]]

\* serde_json::to_string(&data.record_iter().collect::<Vec<_>>())
to_string(records) == [i \in 1..Len(records) |-> record_to_json(records[i])]

\* serde_json::from_str::<Vec<Record>>(&data.content_json) is Ok
from_str_is_ok(content_json) ==
    \A i \in DOMAIN content_json : Len(content_json[i]) = 5

\* serde_json::from_str::<Vec<Record>>(&data.content_json), when Ok
from_str(content_json) ==
    [i \in 1..Len(content_json) |-> record_from_json(content_json[i])]

(***************************************************************************)
(* sort_out_records: TTL rewriting and partition into the four buckets.    *)
(* `nows` holds the value SystemTime::now() returns in each iteration.     *)
(***************************************************************************)
RecordsByKind_default ==
    [answers |-> <<>>, name_servers |-> <<>>, soa |-> <<>>, additionals |-> <<>>]

\* Lines 87-93: the copy of the record with its TTL made relative to now.
rewrite_ttl(record, received_at, now) ==
    LET ttl == record.ttl
        ttl_expires_at == received_at + from_secs(ttl)
        time_until_expiration == duration_since_or_default(ttl_expires_at, now)
    IN  [record EXCEPT !.ttl = as_u32(as_secs(time_until_expiration))]

\* Faulty variant: the name is compared before the record type is looked at.
bucket_of_name_first(request, record) ==
    IF record.name = request.query[1] THEN "answers"
    ELSE IF record.record_type = "SOA" THEN "soa"
    ELSE IF record.record_type = "NS" THEN "name_servers"
    ELSE "additionals"

\* Lines 95-109: the bucket the (rewritten) record is pushed to.  Both
\* names are compared as the strings to_string() gives: the record's name
\* as delivered, the query's name (a LowerName) in lower case.
bucket_of(request, record) ==
    IF record.record_type = "SOA" THEN "soa"
    ELSE IF record.record_type = "NS" THEN "name_servers"
    ELSE IF record.name = request.query[1] THEN "answers"
    ELSE "additionals"

RECURSIVE sort_out_loop(_, _, _, _, _, _)
sort_out_loop(request, records, received_at, nows, i, d) ==
    IF i > Len(records) THEN d
    ELSE LET record == rewrite_ttl(records[i], received_at, nows[i])
             b == bucket_of(request, record)
         IN  sort_out_loop(request, records, received_at, nows, i + 1,
                           [d EXCEPT ![b] = Append(@, record)])

sort_out_records(request, records, received_at, nows) ==
    sort_out_loop(request, records, received_at, nows, 1, RecordsByKind_default)

(***************************************************************************)
(* Response messages (hickory_server MessageResponseBuilder).              *)
(***************************************************************************)
\* Header::new()
Header_new == [id |-> 0, message_type |-> "Query", response_code |-> "NoError"]

\* MessageResponseBuilder::build(header, answers, name_servers, soa, additionals)
build(header, answers, name_servers, soa, additionals) ==
    [id |-> header.id, message_type |-> header.message_type,
     response_code |-> header.response_code,
     answers |-> answers, name_servers |-> name_servers,
     soa |-> soa, additionals |-> additionals]

\* MessageResponseBuilder::error_msg(request_header, response_code): the
\* header is Header::response_from_request(request_header), all sections empty.
error_msg(request_header, response_code) ==
    build([id |-> request_header.id, message_type |-> "Response",
           response_code |-> response_code],
          <<>>, <<>>, <<>>, <<>>)

\* RecordsByKind::make_response
make_response(self, request) ==
    LET header == [Header_new EXCEPT !.id = request.id, !.message_type = "Response"]
    IN  build(header, self.answers, self.name_servers, self.soa, self.additionals)

\* Lines 156-160: the reply to an inbound Response message.
refused_msg(request) == error_msg(Header_new, "Refused")

\* Lines 222-228 and 299-305: the ServFail reply.
servfail_msg(request) ==
    error_msg([Header_new EXCEPT !.id = request.id], "ServFail")

\* Faulty variant: the response code is NXDomain whatever the upstream said.
negative_msg_nxdomain(request, soa, response_code) ==
    LET my_soa == IF soa # None
                  THEN << [name |-> soa.name, record_type |-> soa.record_type,
                           dns_class |-> "IN", ttl |-> soa.ttl, rdata |-> soa.rdata] >>
                  ELSE <<>>
        header == [Header_new EXCEPT !.id = request.id, !.response_code = "NXDomain"]
    IN  build(header, <<>>, <<>>, my_soa, <<>>)

\* Lines 241-258: the reply to a NoRecordsFound error.
negative_msg(request, soa, response_code) ==
    LET my_soa == IF soa # None
                  THEN << [name |-> soa.name, record_type |-> soa.record_type,
                           dns_class |-> "IN", ttl |-> soa.ttl, rdata |-> soa.rdata] >>
                  ELSE <<>>
        header == [Header_new EXCEPT !.id = request.id, !.response_code = response_code]
    IN  build(header, <<>>, <<>>, my_soa, <<>>)


(***************************************************************************)
(* The cache store: the two SQL statements.                                *)
(***************************************************************************)
\* query.name().to_string(), query.query_type().to_string()
key_of(request) == << request.query[1], request.query[2] >>

\* Faulty variant: the UPDATE alone, no row is ever inserted.
upsert_update_only(table, record_name, record_type, record_data, data_received_at_unix, last_query_at_unix) ==
    IF table[<<record_name, record_type>>] = None THEN table
    ELSE [table EXCEPT ![<<record_name, record_type>>] =
            [content_json |-> record_data,
             data_received_at_unix |-> data_received_at_unix,
             last_query_at_unix |-> last_query_at_unix]]

\* Faulty variant: ON CONFLICT leaves data_received_at_unix as it was.
upsert_keeps_received_at(table, record_name, record_type, record_data, data_received_at_unix, last_query_at_unix) ==
    IF table[<<record_name, record_type>>] = None
    THEN [table EXCEPT ![<<record_name, record_type>>] =
            [content_json |-> record_data,
             data_received_at_unix |-> data_received_at_unix,
             last_query_at_unix |-> last_query_at_unix]]
    ELSE [table EXCEPT ![<<record_name, record_type>>].content_json = record_data,
                       ![<<record_name, record_type>>].last_query_at_unix = last_query_at_unix]

\* INSERT INTO record ... ON CONFLICT (record_name, record_type) DO UPDATE SET ...
upsert(table, record_name, record_type, record_data, data_received_at_unix, last_query_at_unix) ==
    [table EXCEPT ![<<record_name, record_type>>] =
        [content_json |-> record_data,
         data_received_at_unix |-> data_received_at_unix,
         last_query_at_unix |-> last_query_at_unix]]

\* Faulty variant: a key without a row gets one, with no content.
touch_or_insert(table, now, record_name, record_type) ==
    IF table[<<record_name, record_type>>] = None
    THEN [table EXCEPT ![<<record_name, record_type>>] =
            [content_json |-> <<>>, data_received_at_unix |-> now,
             last_query_at_unix |-> now]]
    ELSE [table EXCEPT ![<<record_name, record_type>>].last_query_at_unix = now]

\* UPDATE record SET last_query_at_unix = ? WHERE record_name = ? AND record_type = ?
touch(table, now, record_name, record_type) ==
    IF table[<<record_name, record_type>>] = None THEN table
    ELSE [table EXCEPT ![<<record_name, record_type>>].last_query_at_unix = now]

\* ... RETURNING content_json, data_received_at_unix (fetch_optional)
fetch_returning(table, record_name, record_type) ==
    LET row == table[<<record_name, record_type>>]
    IN  IF row = None THEN None
        ELSE [content_json |-> row.content_json,
              data_received_at_unix |-> row.data_received_at_unix]

(***************************************************************************)
(* Initial state: no request yet, the table as the migration creates it.   *)
(***************************************************************************)
HandlerInit ==
    /\ clock = 0
    /\ cache = [k \in Queries |-> None]
    /\ req = [r \in Reqs |-> None]
    /\ pc = [r \in Reqs |-> "idle"]
    /\ upstream = [r \in Reqs |-> None]
    /\ local = [r \in Reqs |-> None]
    /\ task = [r \in Reqs |-> None]
    /\ sent = [r \in Reqs |-> <<>>]
    /\ resolved = {}
    /\ late = [r \in Reqs |-> FALSE]

Init ==
    /\ HandlerInit
    /\ call = None
    /\ result = None

\* The wall clock advances.
Tick ==
    /\ clock < MaxClock
    /\ clock' = clock + 1
    /\ UNCHANGED <<cache, req, pc, upstream, local, task, sent, resolved, late, call, result>>

\* A request arrives at handler slot r (slots fill in order): the fields
\* of the decoded request.
Arrives(r, request) ==
    /\ pc[r] = "idle"
    /\ IF r = 1 THEN TRUE ELSE pc[r - 1] # "idle"
    /\ request \in [id : RequestIds, message_type : MessageTypes, query : Queries]
    /\ req' = [req EXCEPT ![r] = request]
    /\ late' = [late EXCEPT ![r] = (key_of(request) \in resolved)]

\* Faulty variant: the cache statement runs before the message type is looked at.
RefusedReplyAfterTouch(r) ==
    \E request \in [id : RequestIds, message_type : {"Response"}, query : Queries] :
        /\ Arrives(r, request)
        /\ sent' = [sent EXCEPT ![r] = Append(@, refused_msg(request))]
        /\ cache' = touch(cache, now_unix(clock), key_of(request)[1], key_of(request)[2])
        /\ pc' = [pc EXCEPT ![r] = "done"]
        /\ UNCHANGED <<clock, upstream, local, task, resolved, call, result>>

\* Lines 153-165: an inbound Response message is refused.
RefusedReply(r) ==
    \E request \in [id : RequestIds, message_type : {"Response"}, query : Queries] :
        /\ Arrives(r, request)
        /\ sent' = [sent EXCEPT ![r] = Append(@, refused_msg(request))]
        /\ pc' = [pc EXCEPT ![r] = "done"]
        /\ UNCHANGED <<clock, cache, upstream, local, task, resolved, call, result>>

\* Lines 176-206: what the handler hands to tokio::spawn.  record_data and
\* the two timestamps are computed by the handler, before the task runs.
spawned_task(request, data, now) ==
    [state |-> "pending",
     record_name |-> key_of(request)[1],
     record_type |-> key_of(request)[2],
     record_data |-> to_string(data),
     data_received_at_unix |-> now_unix(now),
     last_query_at_unix |-> now_unix(now)]

\* Lines 208-211: the fresh reply; received_at is read before the
\* classifier reads the clock.
fresh_msg(request, data, received_at, now) ==
    LET nows == [i \in 1..Len(data) |-> now]
    IN  make_response(sort_out_records(request, data, received_at, nows), request)

\* Lines 170-217: the lookup returns Ok(data).  A serialization error
\* panics the handler before the task is spawned and before the reply.
\* The clock was read `elapsed` ticks before the classifier reads it.
RespondFromFresh(r) ==
    \E request \in [id : RequestIds, message_type : {"Query"}, query : Queries] :
        /\ Arrives(r, request)
        /\ \E data \in UpstreamAnswers(request.query), serialized \in BOOLEAN,
              elapsed \in 0..MaxElapsed :
             /\ elapsed <= clock
             /\ upstream' = [upstream EXCEPT ![r] =
                   [kind |-> "Ok", data |-> data, serialized |-> serialized,
                    received_at |-> clock - elapsed]]
             /\ IF serialized
                THEN /\ task' = [task EXCEPT ![r] = spawned_task(request, data, clock - elapsed)]
                     /\ sent' = [sent EXCEPT ![r] =
                                   Append(@, fresh_msg(request, data, clock - elapsed, clock))]
                     /\ resolved' = resolved \cup {key_of(request)}
                     /\ pc' = [pc EXCEPT ![r] = "done"]
                ELSE /\ pc' = [pc EXCEPT ![r] = "panicked"]
                     /\ UNCHANGED <<task, sent, resolved>>
        /\ UNCHANGED <<clock, cache, local, call, result>>

\* Lines 194-205: the detached task runs its INSERT ... ON CONFLICT.
CacheWrite(r) ==
    /\ task[r] # None
    /\ task[r].state = "pending"
    /\ cache' = upsert(cache, task[r].record_name, task[r].record_type,
                       task[r].record_data, task[r].data_received_at_unix,
                       task[r].last_query_at_unix)
    /\ task' = [task EXCEPT ![r].state = "done"]
    /\ UNCHANGED <<clock, req, pc, upstream, local, sent, resolved, late, call, result>>

\* Line 204: the statement fails; the detached task panics, alone.
CacheWriteStorageError(r) ==
    /\ task[r] # None
    /\ task[r].state = "pending"
    /\ task' = [task EXCEPT ![r].state = "failed"]
    /\ UNCHANGED <<clock, cache, req, pc, upstream, local, sent, resolved, late, call, result>>

\* Faulty variant: NoConnections is not told apart, it takes the fallback path.
NoConnectionsFallsBack(r) ==
    \E request \in [id : RequestIds, message_type : {"Query"}, query : Queries] :
        /\ Arrives(r, request)
        /\ upstream' = [upstream EXCEPT ![r] = [kind |-> "NoConnections"]]
        /\ local' = [local EXCEPT ![r] = [now |-> now_unix(clock)]]
        /\ pc' = [pc EXCEPT ![r] = "fetch"]
        /\ UNCHANGED <<clock, cache, task, sent, resolved, call, result>>

\* Lines 220-233: NoConnections is answered ServFail at once.
ServFailOnNoConnections(r) ==
    \E request \in [id : RequestIds, message_type : {"Query"}, query : Queries] :
        /\ Arrives(r, request)
        /\ upstream' = [upstream EXCEPT ![r] = [kind |-> "NoConnections"]]
        /\ sent' = [sent EXCEPT ![r] = Append(@, servfail_msg(request))]
        /\ pc' = [pc EXCEPT ![r] = "done"]
        /\ UNCHANGED <<clock, cache, local, task, resolved, call, result>>

\* Faulty variant: the cache statement runs before the error kind is looked at.
NegativeReplyAfterTouch(r) ==
    \E request \in [id : RequestIds, message_type : {"Query"}, query : Queries] :
        /\ Arrives(r, request)
        /\ \E soa \in UpstreamSoas \cup {None}, response_code \in NegativeCodes :
             /\ upstream' = [upstream EXCEPT ![r] =
                   [kind |-> "NoRecordsFound", soa |-> soa, response_code |-> response_code]]
             /\ sent' = [sent EXCEPT ![r] = Append(@, negative_msg(request, soa, response_code))]
        /\ cache' = touch(cache, now_unix(clock), key_of(request)[1], key_of(request)[2])
        /\ pc' = [pc EXCEPT ![r] = "done"]
        /\ UNCHANGED <<clock, local, task, resolved, call, result>>

\* Lines 234-262: NoRecordsFound is passed on as the negative reply.
NegativeReply(r) ==
    \E request \in [id : RequestIds, message_type : {"Query"}, query : Queries] :
        /\ Arrives(r, request)
        /\ \E soa \in UpstreamSoas \cup {None}, response_code \in NegativeCodes :
             /\ upstream' = [upstream EXCEPT ![r] =
                   [kind |-> "NoRecordsFound", soa |-> soa, response_code |-> response_code]]
             /\ sent' = [sent EXCEPT ![r] = Append(@, negative_msg(request, soa, response_code))]
        /\ pc' = [pc EXCEPT ![r] = "done"]
        /\ UNCHANGED <<clock, cache, local, task, resolved, call, result>>

\* Lines 263-276: any other error; `now` is read before the statement runs.
UpstreamOtherError(r) ==
    \E request \in [id : RequestIds, message_type : {"Query"}, query : Queries] :
        /\ Arrives(r, request)
        /\ \E kind \in OtherErrorKinds :
             upstream' = [upstream EXCEPT ![r] = [kind |-> kind]]
        /\ local' = [local EXCEPT ![r] = [now |-> now_unix(clock)]]
        /\ pc' = [pc EXCEPT ![r] = "fetch"]
        /\ UNCHANGED <<clock, cache, task, sent, resolved, call, result>>

\* Faulty variant: the cached records are classified as if received now.
fallback_msg_unaged(request, item, now) ==
    IF item # None
    THEN LET records == from_str(item.content_json)
             nows == [i \in 1..Len(records) |-> now]
         IN  make_response(sort_out_records(request, records, now, nows), request)
    ELSE servfail_msg(request)

\* Lines 283-310: the reply the handler builds from what the statement returned.
fallback_msg(request, item, now) ==
    IF item # None
    THEN LET records == from_str(item.content_json)
             received_at == from_secs(item.data_received_at_unix)
             nows == [i \in 1..Len(records) |-> now]
         IN  make_response(sort_out_records(request, records, received_at, nows), request)
    ELSE servfail_msg(request)

\* Lines 277-310: the UPDATE ... RETURNING runs, then the reply is built
\* and sent; undecodable content panics the handler.
CacheFallback(r) ==
    /\ pc[r] = "fetch"
    /\ LET record_name == key_of(req[r])[1]
           record_type == key_of(req[r])[2]
           item == fetch_returning(cache, record_name, record_type)
       IN  /\ cache' = touch(cache, local[r].now, record_name, record_type)
           /\ local' = [local EXCEPT ![r] = [item |-> item, now |-> clock]]
           /\ IF item # None /\ ~from_str_is_ok(item.content_json)
              THEN /\ pc' = [pc EXCEPT ![r] = "panicked"]
                   /\ UNCHANGED sent
              ELSE /\ sent' = [sent EXCEPT ![r] = Append(@, fallback_msg(req[r], item, clock))]
                   /\ pc' = [pc EXCEPT ![r] = "done"]
    /\ UNCHANGED <<clock, req, upstream, task, resolved, late, call, result>>

\* Line 281: the statement fails; the handler panics without a reply.
CacheFallbackStorageError(r) ==
    /\ pc[r] = "fetch"
    /\ pc' = [pc EXCEPT ![r] = "panicked"]
    /\ UNCHANGED <<clock, cache, req, upstream, local, task, sent, resolved, late, call, result>>

Next ==
    \/ Tick
    \/ \E r \in Reqs : RefusedReply(r)
    \/ \E r \in Reqs : RespondFromFresh(r)
    \/ \E r \in Reqs : CacheWrite(r)
    \/ \E r \in Reqs : CacheWriteStorageError(r)
    \/ \E r \in Reqs : ServFailOnNoConnections(r)
    \/ \E r \in Reqs : NegativeReply(r)
    \/ \E r \in Reqs : UpstreamOtherError(r)
    \/ \E r \in Reqs : CacheFallback(r)
    \/ \E r \in Reqs : CacheFallbackStorageError(r)

Spec == Init /\ [][Next]_vars

\* The runtime keeps polling a spawned task until it has run its statement.
FairSpec ==
    Spec /\ \A r \in Reqs : WF_vars(CacheWrite(r) \/ CacheWriteStorageError(r))

(***************************************************************************)
(* sort_out_records applied on its own, to every input within the bounds.  *)
(* The clock readings of the loop are arbitrary: SystemTime is not         *)
(* monotonic, and received_at may lie after them.                          *)
(***************************************************************************)
SortRecords ==
    { Rec("a.", "A", 1, "r1"), Rec("b.", "A", 0, "r2"), Rec("a.", "NS", 2, "ns."),
      Rec("a.", "SOA", TtlModulus - 1, "soa"), Rec("b.", "CNAME", TtlModulus - 1, "a."),
      Rec("a.", "AAAA", 2, "r3"), Rec("A.", "A", 1, "r4") }

\* Every call sort_out_records(request, records, received_at) within the
\* bounds, with one clock reading per record.
SortInit ==
    /\ HandlerInit
    /\ \E k \in 0..MaxRecords, q \in Queries, received_at \in 0..MaxClock :
         \E records \in [1..k -> SortRecords], nows \in [1..k -> 0..MaxClock] :
            call = [request |-> [id |-> 7, message_type |-> "Query", query |-> q],
                    records |-> records, received_at |-> received_at, nows |-> nows]
    /\ result = None

ApplySort ==
    /\ result = None
    /\ result' = sort_out_records(call.request, call.records, call.received_at, call.nows)
    /\ UNCHANGED <<handler_vars, call>>

SortNext == ApplySort

SortSpec == SortInit /\ [][SortNext]_vars

(***************************************************************************)
(* UpstreamSpec::from_str (src/src/args.rs).  A string is the sequence of  *)
(* its pieces: the separators ":" and "/" and the maximal runs of other    *)
(* characters between them, so that no two runs are adjacent.  Indices     *)
(* count pieces from 0, as the code's count bytes from 0.                  *)
(***************************************************************************)
Separators == {":", "/"}
\* The runs of characters other than ':' and '/' an input is made of.
Texts == {"127.0.0.1", "example.com", "80", "0", "1", "65535", "65536", "tcp", "udp", "wtf"}

IsText(piece) == piece \notin Separators

\* Every string of at most n pieces.
RECURSIVE Strings(_)
Strings(n) ==
    IF n = 0 THEN {<<>>}
    ELSE LET shorter == Strings(n - 1)
         IN  shorter \cup
             { Append(s, piece) : s \in { t \in shorter : Len(t) = n - 1 },
                                  piece \in Separators }
             \cup
             { Append(s, piece) : s \in { t \in shorter : /\ Len(t) = n - 1
                                                          /\ IF t = <<>> THEN TRUE
                                                             ELSE ~IsText(t[Len(t)]) },
                                  piece \in Texts }

\* s.find(c) is Some
contains(s, c) == \E i \in 1..Len(s) : s[i] = c
\* s.find(c), when Some: the index of the first c
find(s, c) == (CHOOSE i \in 1..Len(s) : s[i] = c /\ \A j \in 1..(i - 1) : s[j] # c) - 1
\* &s[..idx]
slice_to(s, idx) == SubSeq(s, 1, idx)
\* &s[idx..]
slice_from(s, idx) == SubSeq(s, idx + 1, Len(s))

\* The address literals str::parse::<IpAddr> accepts, among the strings
\* that can be made of the pieces.
Ipv4Literals == { <<"127.0.0.1">> }
Ipv6Literals == { <<":", ":", "1">>, <<"1", ":", ":", "1">> }
\* host.parse::<IpAddr>() is Ok
ip_parse_is_ok(host) == host \in Ipv4Literals \cup Ipv6Literals

\* The value of a run of decimal digits.
DecimalValue ==
    ("80" :> 80) @@ ("0" :> 0) @@ ("1" :> 1) @@ ("65535" :> 65535) @@ ("65536" :> 65536)
\* port_str.parse::<u16>() is Ok
parse_u16_is_ok(port_str) ==
    /\ Len(port_str) = 1
    /\ port_str[1] \in DOMAIN DecimalValue
    /\ DecimalValue[port_str[1]] < 2 ^ 16
\* port_str.parse::<u16>(), when Ok
parse_u16(port_str) == DecimalValue[port_str[1]]

Err(why) == [ok |-> FALSE, err |-> why]
Ok(host, port, protocol) == [ok |-> TRUE, host |-> host, port |-> port, protocol |-> protocol]

\* Lines 51-57
first_separator(s) ==
    LET at_colon == IF contains(s, ":") THEN find(s, ":") ELSE Len(s)
    IN  IF contains(s, "/") /\ find(s, "/") < at_colon THEN find(s, "/") ELSE at_colon

\* Faulty variant: an unknown protocol falls back to the default.
protocol_of_lenient(proto) ==
    CASE proto = <<"tcp">> -> [ok |-> TRUE, protocol |-> "Tcp"]
      [] OTHER -> [ok |-> TRUE, protocol |-> "Udp"]

\* Lines 81-85: match proto
protocol_of(proto) ==
    CASE proto = <<"tcp">> -> [ok |-> TRUE, protocol |-> "Tcp"]
      [] proto = <<"udp">> -> [ok |-> TRUE, protocol |-> "Udp"]
      [] OTHER -> [ok |-> FALSE]

\* Faulty variant: the string is cut at the first separator, port included.
strip_protocol_and_port(s, idx) == slice_to(s, first_separator(s))

\* Line 88: s = &s[..idx]
strip_protocol(s, idx) == slice_to(s, idx)

\* Lines 91-102: the port, if any, and the returned value.
with_port(s, host, protocol) ==
    IF contains(s, ":")
    THEN LET port_str == slice_from(s, find(s, ":") + 1)
         IN  IF parse_u16_is_ok(port_str)
             THEN Ok(host, parse_u16(port_str), protocol)
             ELSE Err("Failed to parse port")
    ELSE Ok(host, 53, protocol)

\* Lines 46-103
UpstreamSpec_from_str(s) ==
    LET host == slice_to(s, first_separator(s))
    IN  IF host = <<>> THEN Err("No host specified")
        ELSE IF ~ip_parse_is_ok(host) THEN Err("Failed to parse IP")
        ELSE IF first_separator(s) = Len(s) THEN Ok(host, 53, "Udp")
        ELSE IF contains(s, "/")
             THEN LET idx == find(s, "/")
                      proto == protocol_of(slice_from(s, idx + 1))
                  IN  IF ~proto.ok THEN Err("Unknown protocol")
                      ELSE with_port(strip_protocol(s, idx), host, proto.protocol)
             ELSE with_port(s, host, "Udp")

\* UpstreamSpec::from_str applied on its own, to every string within the bounds.
ParseInit ==
    /\ HandlerInit
    /\ \E s \in Strings(MaxPieces) : call = [s |-> s]
    /\ result = None

ApplyParse ==
    /\ result = None
    /\ result' = UpstreamSpec_from_str(call.s)
    /\ UNCHANGED <<handler_vars, call>>

ParseNext == ApplyParse

ParseSpec == ParseInit /\ [][ParseNext]_vars

(***************************************************************************)
(* Vocabulary of the properties.                                           *)
(***************************************************************************)
Finished(r) == pc[r] \in {"done", "panicked"}
Outcome(r, kind) == upstream[r] # None /\ upstream[r].kind = kind
OtherError(r) == upstream[r] # None /\ upstream[r].kind \in OtherErrorKinds
\* Handler r takes a step.
Steps(r) == pc'[r] # pc[r]
\* Handler r passes a response to send_response in this step.
Sends(r) == sent'[r] # sent[r]
Reply(r) == sent[r][Len(sent[r])]
NewReply(r) == sent'[r][Len(sent'[r])]

AllRecords(msg) == msg.answers \o msg.name_servers \o msg.soa \o msg.additionals
NoRecords(msg) == AllRecords(msg) = <<>>

Range(f) == { f[x] : x \in DOMAIN f }
BagOfSeq(seq) == [x \in Range(seq) |-> Cardinality({ i \in DOMAIN seq : seq[i] = x })]

Max(a, b) == IF a >= b THEN a ELSE b
\* max(0, received_at + ttl - now) in whole seconds, truncated to the TTL width.
ExpectedTtl(received_at, ttl, now) ==
    (Max(0, received_at + ttl * TicksPerSecond - now) \div TicksPerSecond) % TtlModulus

\* The records with each TTL replaced by the remaining lifetime.
Aged(records, received_at, nows) ==
    [i \in 1..Len(records) |->
        [records[i] EXCEPT !.ttl = ExpectedTtl(received_at, records[i].ttl, nows[i])]]

\* The reply carries exactly these records, each once, in some section.
Carries(msg, records) == BagOfSeq(AllRecords(msg)) = BagOfSeq(records)

(***************************************************************************)
(* C1  Every request handed to handle_request gets exactly one response,   *)
(* whatever its message type, the upstream outcome and the outcome of the  *)
(* cache statement: once the handler has ended, by returning or by a       *)
(* panic, it has passed one response to send_response, never none and      *)
(* never two.  (A failed serialization is no outcome of the upstream or of *)
(* the cache store; it is left to C9.)                                     *)
(***************************************************************************)
SerializationFailed(r) == Outcome(r, "Ok") /\ ~upstream[r].serialized

C1_ExactlyOneResponse ==
    \A r \in Reqs :
        /\ Len(sent[r]) <= 1
        /\ (Finished(r) /\ ~SerializationFailed(r)) => Len(sent[r]) = 1

(***************************************************************************)
(* C2  Every response sent carries the id of the request it answers, on    *)
(* every reply path, the Refused reply included.                           *)
(***************************************************************************)
C2_ResponseIdIsRequestId ==
    \A r \in Reqs : \A i \in 1..Len(sent[r]) : sent[r][i].id = req[r].id

(***************************************************************************)
(* C3  After an upstream error other than NoConnections and NoRecordsFound *)
(* the reply is decided by the row the cache holds for (name, type) when   *)
(* the fallback statement runs: if there is a row, the reply is NoError    *)
(* and carries that row's records, each with its TTL rewritten to the      *)
(* remaining lifetime; the reply is ServFail only if there is no row.      *)
(***************************************************************************)
C3_FallbackServesRow ==
    [][\A r \in Reqs :
         (OtherError(r) /\ Sends(r)) =>
            LET row == cache[key_of(req[r])]
                msg == NewReply(r)
            IN  /\ row # None =>
                     /\ msg.response_code = "NoError"
                     /\ msg.id = req[r].id
                     /\ Carries(msg, Aged(from_str(row.content_json),
                                          row.data_received_at_unix * TicksPerSecond,
                                          [i \in 1..Len(row.content_json) |-> clock]))
                /\ msg.response_code = "ServFail" => row = None
                /\ row = None => msg.response_code = "ServFail" /\ NoRecords(msg)]_vars

C3_Witness ==
    \E r \in Reqs :
        /\ pc[r] = "done" /\ OtherError(r)
        /\ Len(Reply(r).answers) > 0
        /\ \E i \in 1..Len(Reply(r).answers) : Reply(r).answers[i].ttl = 0

(***************************************************************************)
(* C4  As claimed: once a request for (name, type) has been answered from  *)
(* a successful upstream lookup, no later request for the same (name,      *)
(* type) whose upstream lookup fails is answered ServFail.                 *)
(***************************************************************************)
C4_NeverServFailAfterFresh ==
    \A r \in Reqs :
        (pc[r] = "done" /\ late[r] /\ upstream[r] # None /\ upstream[r].kind # "Ok")
            => Reply(r).response_code # "ServFail"

(***************************************************************************)
(* C4, amended  Once the detached write of a successful lookup of (name,   *)
(* type) has committed its row, no request for the same (name, type) whose *)
(* upstream lookup fails with a kind other than NoConnections and          *)
(* NoRecordsFound, and whose fallback statement runs after that, is        *)
(* answered ServFail.                                                      *)
(***************************************************************************)
Committed(key) ==
    \E q \in Reqs :
        /\ task[q] # None
        /\ task[q].state = "done"
        /\ <<task[q].record_name, task[q].record_type>> = key

C4_NoServFailOnceCommitted ==
    [][\A r \in Reqs :
         (OtherError(r) /\ Sends(r) /\ Committed(key_of(req[r])))
            => NewReply(r).response_code # "ServFail"]_vars

C4_Witness ==
    \E r \in Reqs :
        /\ pc[r] = "done" /\ OtherError(r) /\ late[r]
        /\ Committed(key_of(req[r]))
        /\ Reply(r).response_code = "NoError"
        /\ Len(Reply(r).answers) > 0

(***************************************************************************)
(* C5  On a NoConnections error the reply is ServFail with no records and  *)
(* the handler issues no cache statement: its step leaves every row,       *)
(* last_query_at_unix included, as it was, also when a row for the key     *)
(* exists.                                                                 *)
(***************************************************************************)
C5_NoConnectionsSkipsCache ==
    [][\A r \in Reqs :
         (upstream'[r] # None /\ upstream'[r].kind = "NoConnections" /\ Steps(r)) =>
            /\ cache' = cache
            /\ task'[r] = None
            /\ pc'[r] = "done"
            /\ Len(sent'[r]) = 1
            /\ NewReply(r).response_code = "ServFail"
            /\ NoRecords(NewReply(r))]_vars

C5_Witness ==
    \E r \in Reqs :
        /\ pc[r] = "done" /\ Outcome(r, "NoConnections")
        /\ cache[key_of(req[r])] # None
        /\ Reply(r).response_code = "ServFail"

(***************************************************************************)
(* C6  On a NoRecordsFound error the handler issues neither a cache read   *)
(* nor a cache write: its step leaves the table as it was and spawns no    *)
(* write, and the reply carries no answer, also when a row for the key     *)
(* exists.                                                                 *)
(***************************************************************************)
C6_NoRecordsFoundSkipsCache ==
    [][\A r \in Reqs :
         (upstream'[r] # None /\ upstream'[r].kind = "NoRecordsFound" /\ Steps(r)) =>
            /\ cache' = cache
            /\ task'[r] = None
            /\ pc'[r] = "done"
            /\ Len(sent'[r]) = 1
            /\ NewReply(r).answers = <<>>
            /\ NewReply(r).response_code = upstream'[r].response_code]_vars

C6_Witness ==
    \E r \in Reqs :
        /\ pc[r] = "done" /\ Outcome(r, "NoRecordsFound")
        /\ cache[key_of(req[r])] # None
        /\ Reply(r).answers = <<>>
        /\ Reply(r).response_code = "NXDomain"

(***************************************************************************)
(* C7  The negative reply has the response code of the upstream error, no  *)
(* answers, no NS and no additionals; its SOA section holds the upstream's *)
(* SOA record alone, with name, type, TTL and RDATA as delivered, or is    *)
(* empty when the error carries none.                                      *)
(***************************************************************************)
SameButClass(a, b) ==
    /\ a.name = b.name
    /\ a.record_type = b.record_type
    /\ a.ttl = b.ttl
    /\ a.rdata = b.rdata

C7_NegativeReplyContent ==
    \A r \in Reqs :
        (pc[r] = "done" /\ Outcome(r, "NoRecordsFound")) =>
            LET msg == Reply(r)
                soa == upstream[r].soa
            IN  /\ msg.response_code = upstream[r].response_code
                /\ msg.answers = <<>>
                /\ msg.name_servers = <<>>
                /\ msg.additionals = <<>>
                /\ IF soa = None
                   THEN msg.soa = <<>>
                   ELSE Len(msg.soa) = 1 /\ SameButClass(msg.soa[1], soa)

C7_Witness ==
    \E r \in Reqs :
        /\ pc[r] = "done" /\ Outcome(r, "NoRecordsFound")
        /\ upstream[r].soa # None
        /\ clock >= 2 * TicksPerSecond
        /\ Len(Reply(r).soa) = 1
        /\ Reply(r).soa[1].ttl = 2

(***************************************************************************)
(* C8  As claimed: every successful upstream lookup is followed by an      *)
(* upsert at the cache store.  Stated on the final result: once the        *)
(* handler has ended and no detached write of it is pending, its upsert    *)
(* statement has run.                                                      *)
(***************************************************************************)
WritePending(r) == task[r] # None /\ task[r].state = "pending"
UpsertRan(r) == task[r] # None /\ task[r].state \in {"done", "failed"}

CarriesBatch(r) ==
    /\ <<task[r].record_name, task[r].record_type>> = key_of(req[r])
    /\ task[r].data_received_at_unix = task[r].last_query_at_unix
    /\ task[r].data_received_at_unix = upstream[r].received_at \div TicksPerSecond
    /\ from_str_is_ok(task[r].record_data)
    /\ from_str(task[r].record_data) = upstream[r].data

WriteFailed(r) ==
    \/ SerializationFailed(r)
    \/ task[r] # None /\ task[r].state = "failed"

Untimed(records) == [i \in 1..Len(records) |-> [records[i] EXCEPT !.ttl = 0]]

C9_WriteFailureNotPropagated ==
    \A r \in Reqs :
        (Outcome(r, "Ok") /\ Finished(r) /\ WriteFailed(r)) =>
            /\ Len(sent[r]) = 1
            /\ Reply(r).response_code = "NoError"
            /\ BagOfSeq(Untimed(AllRecords(Reply(r)))) = BagOfSeq(Untimed(upstream[r].data))

(***************************************************************************)
(* C10  Every record sort_out_records is given is output, and its TTL is   *)
(* max(0, received_at + original TTL - now) in whole seconds, truncated to *)
(* the TTL width; a record already expired is output with TTL 0.           *)
(***************************************************************************)
C10_RewrittenTtl ==
    result # None =>
        Carries(result, Aged(call.records, call.received_at, call.nows))

C10_Witness ==
    /\ result # None
    /\ \E i \in 1..Len(call.records) :
         /\ call.records[i].ttl > 0
         /\ call.received_at + call.records[i].ttl * TicksPerSecond < call.nows[i]
         /\ [call.records[i] EXCEPT !.ttl = 0] \in Range(AllRecords(result))
    /\ Len(AllRecords(result)) = Len(call.records)

(***************************************************************************)
(* C11  When a request is answered from the cache, the reply carries the   *)
(* records of the batch the upstream delivered to the lookup whose write   *)
(* the row holds, and each record's TTL is                                 *)
(* max(0, stored TTL - (now - data_received_at_unix)) in whole seconds     *)
(* (the fraction of a second is dropped), where the stored TTL is the TTL  *)
(* the upstream delivered and now is the clock when the reply is built.    *)
(***************************************************************************)
CachedTtl(stored_ttl, data_received_at_unix, now) ==
    Max(0, stored_ttl * TicksPerSecond - (now - data_received_at_unix * TicksPerSecond))
        \div TicksPerSecond

ServedFromCache(delivered, data_received_at_unix, now) ==
    [i \in 1..Len(delivered) |->
        [delivered[i] EXCEPT !.ttl = CachedTtl(delivered[i].ttl, data_received_at_unix, now)]]

C11_CachedTtl ==
    [][\A r \in Reqs :
         (OtherError(r) /\ Sends(r) /\ cache[key_of(req[r])] # None) =>
            LET row == cache[key_of(req[r])]
            IN  \E q \in Reqs :
                   /\ Outcome(q, "Ok")
                   /\ key_of(req[q]) = key_of(req[r])
                   /\ task[q] # None /\ task[q].state = "done"
                   /\ row.data_received_at_unix = upstream[q].received_at \div TicksPerSecond
                   /\ Carries(NewReply(r),
                              ServedFromCache(upstream[q].data, row.data_received_at_unix, clock))]_vars

C11_Witness ==
    \E r \in Reqs :
        /\ pc[r] = "done" /\ OtherError(r)
        /\ Len(Reply(r).answers) = 1
        /\ Reply(r).answers[1].ttl = 1
        /\ \E q \in Reqs :
              /\ Outcome(q, "Ok")
              /\ key_of(req[q]) = key_of(req[r])
              /\ Len(upstream[q].data) = 1
              /\ upstream[q].data[1].ttl = 2
              /\ clock - upstream[q].received_at >= TicksPerSecond

(***************************************************************************)
(* C12  sort_out_records places every input record in exactly one of the   *)
(* four buckets, first match wins: type SOA -> soa; else type NS ->        *)
(* name_servers; else name equal to the query name -> answers; else        *)
(* additionals.  Each bucket is the list of the (rewritten) input records  *)
(* that belong to it, in input order: none dropped, none duplicated.       *)
(***************************************************************************)
Buckets == {"answers", "name_servers", "soa", "additionals"}

Belongs(bucket, request, record) ==
    CASE bucket = "soa" -> record.record_type = "SOA"
      [] bucket = "name_servers" -> record.record_type = "NS"
      [] bucket = "answers" ->
            /\ record.record_type \notin {"SOA", "NS"}
            /\ record.name = request.query[1]
      [] bucket = "additionals" ->
            /\ record.record_type \notin {"SOA", "NS"}
            /\ record.name # request.query[1]

C12_Partition ==
    result # None =>
        LET rewritten == Aged(call.records, call.received_at, call.nows)
        IN  /\ \A bucket \in Buckets :
                 result[bucket] =
                    SelectSeq(rewritten, LAMBDA record : Belongs(bucket, call.request, record))
            /\ Len(result.answers) + Len(result.name_servers)
                 + Len(result.soa) + Len(result.additionals) = Len(call.records)

C12_Witness ==
    /\ result # None
    /\ Len(call.records) = 2
    /\ call.records[1].record_type = "NS"
    /\ call.records[1].name = call.request.query[1]
    /\ call.records[2].record_type = "A"
    /\ call.records[2].name = call.request.query[1]
    /\ Len(result.name_servers) = 1
    /\ Len(result.answers) = 1
    /\ result.answers[1].rdata = call.records[2].rdata

(***************************************************************************)
(* C13  In sort_out_records the comparison of a record's name with the     *)
(* query name is case-insensitive: a record that is neither SOA nor NS and *)
(* whose name equals the query name up to letter case is put in the        *)
(* answers bucket, not in additionals.                                     *)
(***************************************************************************)
\* The name with its letters in lower case.
lower(name) ==
    CASE name = "A." -> "a."
      [] name = "B." -> "b."
      [] OTHER -> name

C13_CaseInsensitiveNameMatch ==
    result # None =>
        \A i \in 1..Len(call.records) :
            ( /\ call.records[i].record_type \notin {"SOA", "NS"}
              /\ lower(call.records[i].name) = lower(call.request.query[1]) )
            => /\ \E j \in 1..Len(result.answers) :
                      /\ result.answers[j].name = call.records[i].name
                      /\ result.answers[j].rdata = call.records[i].rdata
               /\ \A j \in 1..Len(result.additionals) :
                      result.additionals[j].rdata # call.records[i].rdata

(***************************************************************************)
(* Vocabulary of the properties of UpstreamSpec::from_str.                 *)
(***************************************************************************)
IpLiterals == Ipv4Literals \cup Ipv6Literals
\* The piece that follows the first separator c of s, <<>> if s ends there.
After(s, c) ==
    LET at == CHOOSE i \in 1..Len(s) : s[i] = c /\ \A j \in 1..(i - 1) : s[j] # c
    IN  IF at < Len(s) /\ IsText(s[at + 1]) THEN <<s[at + 1]>> ELSE <<>>

\* The strings of the shape host[:port][/protocol]: an address literal,
\* then ':' and a run of characters, then '/' and a known protocol.
PortParts == {<<>>, <<":">>} \cup { <<":", text>> : text \in Texts }
ProtocolParts == {<<>>, <<"/", "tcp">>, <<"/", "udp">>}
WellShaped(s) ==
    \E host \in IpLiterals, port \in PortParts, protocol \in ProtocolParts :
        s = host \o port \o protocol

(***************************************************************************)
(* C14  For every input string s, UpstreamSpec::from_str(s) returns either *)
(* an error string or a complete UpstreamSpec (an address, a 16-bit port,  *)
(* a protocol); in a returned spec the port is 53 when s has no ':', the   *)
(* protocol is UDP when s has no '/', and a port or protocol that is given *)
(* is returned as written.  (The function has no panicking step: every     *)
(* slice index comes from find on the same string.)                        *)
(***************************************************************************)
C14_ParsesOrFails ==
    result # None =>
        IF result.ok
        THEN /\ DOMAIN result = {"ok", "host", "port", "protocol"}
             /\ result.host \in IpLiterals
             /\ result.port \in 0..(2 ^ 16 - 1)
             /\ result.protocol \in {"Udp", "Tcp"}
             /\ IF contains(call.s, ":")
                THEN /\ After(call.s, ":") # <<>>
                     /\ result.port = DecimalValue[After(call.s, ":")[1]]
                ELSE result.port = 53
             /\ IF contains(call.s, "/")
                THEN \/ After(call.s, "/") = <<"tcp">> /\ result.protocol = "Tcp"
                     \/ After(call.s, "/") = <<"udp">> /\ result.protocol = "Udp"
                ELSE result.protocol = "Udp"
        ELSE DOMAIN result = {"ok", "err"}

C14_Witness ==
    /\ call.s = <<"127.0.0.1", ":", "80", "/", "tcp">>
    /\ result = [ok |-> TRUE, host |-> <<"127.0.0.1">>, port |-> 80, protocol |-> "Tcp"]

(***************************************************************************)
(* C15  UpstreamSpec::from_str returns an error for every input that does  *)
(* not have the shape host[:port][/protocol] in that order: an empty host, *)
(* a host that is no address literal, the protocol before the port, any    *)
(* text after the protocol, an unknown protocol, a ':' or '/' too many.    *)
(***************************************************************************)
C15_MisshapenIsError ==
    (result # None /\ ~WellShaped(call.s)) => ~result.ok

C15_Witness ==
    /\ call.s = <<"127.0.0.1", "/", "tcp", ":", "80">>
    /\ result # None
    /\ ~result.ok

(***************************************************************************)
(* C16  UpstreamSpec::from_str accepts an IPv6 literal as the host: for an *)
(* input that is an IPv6 literal, alone or followed by '/' and a known     *)
(* protocol, it returns an UpstreamSpec whose host is that address.        *)
(***************************************************************************)
C16_Ipv6HostAccepted ==
    result # None =>
        \A host \in Ipv6Literals, protocol \in ProtocolParts :
            call.s = host \o protocol => (result.ok /\ result.host = host)

(***************************************************************************)
(* C17  Every UpstreamSpec returned by UpstreamSpec::from_str has a port   *)
(* in 1..65535: an input whose port part is 0, is above 65535, is empty or *)
(* is no decimal number is rejected with an error.                         *)
(***************************************************************************)
ValidPort(port_str) ==
    /\ Len(port_str) = 1
    /\ port_str[1] \in DOMAIN DecimalValue
    /\ DecimalValue[port_str[1]] \in 1..65535

C17_PortInRange ==
    result # None =>
        /\ result.ok => result.port \in 1..65535
        /\ (contains(call.s, ":") /\ ~ValidPort(After(call.s, ":"))) => ~result.ok

(***************************************************************************)
(* C18  A request whose message type is Response is answered with          *)
(* RCODE=Refused and no records, in one step of the handler that issues no *)
(* upstream lookup, no cache read and no cache write: the table is left as *)
(* it was, also when it holds a row for the query, and no write is         *)
(* spawned.                                                                *)
(***************************************************************************)
C18_ResponseIsRefused ==
    [][\A r \in Reqs :
         (Steps(r) /\ req'[r].message_type = "Response") =>
            /\ pc[r] = "idle" /\ pc'[r] = "done"
            /\ Len(sent'[r]) = 1
            /\ NewReply(r).response_code = "Refused"
            /\ NewReply(r).message_type = "Response"
            /\ NoRecords(NewReply(r))
            /\ upstream'[r] = None
            /\ local'[r] = None
            /\ task'[r] = None
            /\ cache' = cache]_vars

C18_Witness ==
    \E r \in Reqs :
        /\ pc[r] = "done"
        /\ req[r].message_type = "Response"
        /\ cache[key_of(req[r])] # None
        /\ clock \div TicksPerSecond > cache[key_of(req[r])].last_query_at_unix
        /\ Reply(r).response_code = "Refused"

(***************************************************************************)
(* C19  The cache-fallback read for key (name, type) with timestamp now is *)
(* one atomic step: if a row with that key exists, it sets that row's      *)
(* last_query_at_unix to now and returns the row's content_json and        *)
(* data_received_at_unix, leaving content_json, data_received_at_unix and  *)
(* every other row unchanged; if no row exists, it returns absent and      *)
(* creates no row.                                                         *)
(***************************************************************************)
C19_TouchReadIsAtomic ==
    [][\A r \in Reqs :
         (pc[r] = "fetch" /\ pc'[r] = "done") =>
            LET key == key_of(req[r])
                row == cache[key]
            IN  /\ \A other \in DOMAIN cache : other # key => cache'[other] = cache[other]
                /\ DOMAIN cache' = DOMAIN cache
                /\ IF row = None
                   THEN /\ cache'[key] = None
                        /\ local'[r].item = None
                   ELSE /\ cache'[key] = [content_json |-> row.content_json,
                                          data_received_at_unix |-> row.data_received_at_unix,
                                          last_query_at_unix |-> local[r].now]
                        /\ local'[r].item = [content_json |-> row.content_json,
                                             data_received_at_unix |-> row.data_received_at_unix]]_vars

C19_Witness ==
    \E r \in Reqs :
        /\ pc[r] = "done" /\ OtherError(r)
        /\ local[r].item # None
        /\ cache[key_of(req[r])] # None
        /\ cache[key_of(req[r])].last_query_at_unix > cache[key_of(req[r])].data_received_at_unix
        /\ cache[key_of(req[r])].content_json = local[r].item.content_json
        /\ cache[key_of(req[r])].data_received_at_unix = local[r].item.data_received_at_unix

(***************************************************************************)
(* C20  Under any interleaving of concurrent requests for the same (name,  *)
(* type) the row's data_received_at_unix never decreases: once all         *)
(* detached writes have completed, the row holds the batch fetched last,   *)
(* so its data_received_at_unix is not below that of any write committed   *)
(* for the key.                                                            *)
(***************************************************************************)
AllWritesCompleted == \A q \in Reqs : ~WritePending(q)

C20_RowHoldsLatestBatch ==
    AllWritesCompleted =>
        \A q \in Reqs :
            (task[q] # None /\ task[q].state = "done") =>
                LET row == cache[<<task[q].record_name, task[q].record_type>>]
                IN  /\ row # None
                    /\ row.data_received_at_unix >= task[q].data_received_at_unix

(***************************************************************************)
(* C21  In every reachable state of the cache, under any interleaving of   *)
(* detached upserts and fallback touch-reads with a non-decreasing clock,  *)
(* every row satisfies last_query_at_unix >= data_received_at_unix.        *)
(***************************************************************************)
C21_LastQueryNotBeforeReceived ==
    \A key \in DOMAIN cache :
        cache[key] # None =>
            cache[key].last_query_at_unix >= cache[key].data_received_at_unix

=============================================================================
